---- MODULE Spec2Model ----
(***************************************************************************)
(* Mizrach Mapper: the geodesy functions (initialBearingGC, rhumbBearing,  *)
(* destinationGC, makeBearingLine) and the App component that drives them. *)
(*                                                                         *)
(* Numbers.  The source computes in IEEE doubles.  Here a real number is a *)
(* fixed-point integer: angles in radians and trigonometric values in      *)
(* units of 1/ONE, angles in degrees in units of 1/DEG, distances in whole *)
(* metres.  Every product and quotient is truncated toward zero, so a      *)
(* magnitude below 1/ONE is flushed to zero.  The IEEE values that the     *)
(* source can produce outside that range (tan(PI/2), +-Infinity, NaN) are  *)
(* carried explicitly.                                                     *)
(***************************************************************************)
EXTENDS Integers, Sequences, FiniteSets, TLC

\* ------------------------------------------------------------------------
\* Fixed-point arithmetic
\* ------------------------------------------------------------------------
ONE == 100000000
DEG == 1000000
PI == 314159265
HALF_PI == 157079632
QUARTER_PI == 78539816
TWO_PI == 628318530
NaN == -2147483647

\* Every operator below uses each of its arguments through one bound
\* variable, so an argument is evaluated once however often the body needs it.
The(S) == CHOOSE v \in S : TRUE

Abs(x) == The({IF v < 0 THEN -v ELSE v : v \in {x}})
Sgn(x) == IF x < 0 THEN -1 ELSE 1

\* <<quotient, remainder>> of m * n by c for m, n >= 0 and c > 0, by binary
\* decomposition of n so that no intermediate leaves 32 bits.
RECURSIVE MulDivQR(_, _, _)
MulDivQR(m, n, c) ==
  IF n = 0 THEN <<0, 0>>
  ELSE LET h == MulDivQR(m, n \div 2, c)
           r2 == 2 * h[2] + (IF n % 2 = 1 THEN m ELSE 0)
       IN <<2 * h[1] + (r2 \div c), r2 % c>>

\* m * n / c, truncated toward zero
MulDiv(m, n, c) ==
  The({Sgn(u) * Sgn(v) * MulDivQR(Abs(u), Abs(v), c)[1] : u \in {m}, v \in {n}})

\* m * n / ONE for |m|, |n| < 4 * ONE, truncated toward zero, exactly, on
\* limbs of four digits
LIMB == 10000
MulAbs(m, n) ==
  The({m1 * n1 + (m1 * n0 + m0 * n1 + (m0 * n0) \div LIMB) \div LIMB :
        m1 \in {m \div LIMB}, m0 \in {m % LIMB},
        n1 \in {n \div LIMB}, n0 \in {n % LIMB}})

Mul(m, n) ==
  The({Sgn(u) * Sgn(v) * MulAbs(Abs(u), Abs(v)) : u \in {m}, v \in {n}})

\* m / n in units of 1 / ONE, truncated toward zero
Div(m, n) == The({Sgn(v) * MulDiv(ONE, u, Abs(v)) : u \in {m}, v \in {n}})

\* JavaScript %: the remainder takes the sign of the dividend.
JsMod(n, m) == The({IF v >= 0 THEN v % m ELSE -((-v) % m) : v \in {n}})

SinSeries(x) ==
  The({LET t5 == ONE - x2 \div 110
           t4 == ONE - Mul(x2, t5) \div 72
           t3 == ONE - Mul(x2, t4) \div 42
           t2 == ONE - Mul(x2, t3) \div 20
           t1 == ONE - Mul(x2, t2) \div 6
       IN Mul(v, t1) : v \in {x}, x2 \in {Mul(x, x)}})

CosSeries(x) ==
  The({LET t5 == ONE - x2 \div 90
           t4 == ONE - Mul(x2, t5) \div 56
           t3 == ONE - Mul(x2, t4) \div 30
           t2 == ONE - Mul(x2, t3) \div 12
       IN ONE - Mul(x2, t2) \div 2 : x2 \in {Mul(x, x)}})

RECURSIVE WrapPi(_)
WrapPi(x) ==
  IF x > PI THEN WrapPi(x - TWO_PI)
  ELSE IF x < -PI THEN WrapPi(x + TWO_PI) ELSE x

SinQ(x) == IF x > QUARTER_PI THEN CosSeries(HALF_PI - x) ELSE SinSeries(x)
CosQ(x) == IF x > QUARTER_PI THEN SinSeries(HALF_PI - x) ELSE CosSeries(x)

\* Math.sin
Sin(x) ==
  The({Sgn(w) * (IF Abs(w) > HALF_PI THEN SinQ(PI - Abs(w)) ELSE SinQ(Abs(w))) :
        w \in {WrapPi(x)}})

\* Math.cos
Cos(x) ==
  The({IF m > HALF_PI THEN -CosQ(PI - m) ELSE CosQ(m) : m \in {Abs(WrapPi(x))}})

ATAN_HALF == 46364761

AtanSeries(z) ==
  The({LET t6 == ONE \div 11 - Mul(z2, ONE \div 13)
           t5 == ONE \div 9 - Mul(z2, t6)
           t4 == ONE \div 7 - Mul(z2, t5)
           t3 == ONE \div 5 - Mul(z2, t4)
           t2 == ONE \div 3 - Mul(z2, t3)
       IN Mul(v, ONE - Mul(z2, t2)) : v \in {z}, z2 \in {Mul(z, z)}})

\* atan(t) for 0 <= t <= ONE
AtanUnit(t) ==
  The({IF 4 * v <= ONE THEN AtanSeries(v)
       ELSE IF 4 * v <= 3 * ONE
            THEN ATAN_HALF + AtanSeries(Div(v - ONE \div 2, ONE + v \div 2))
            ELSE QUARTER_PI + AtanSeries(Div(v - ONE, ONE + v)) : v \in {t}})

\* Math.atan2 on finite arguments; atan2(0, 0) = 0 and atan2(0, x < 0) = PI.
Atan2(y, x) ==
  The({LET ay == Abs(v)
           ax == Abs(u)
           base == IF ax = 0 /\ ay = 0 THEN 0
                   ELSE IF ax >= ay THEN AtanUnit(Div(ay, ax))
                   ELSE HALF_PI - AtanUnit(Div(ax, ay))
       IN Sgn(v) * (IF u < 0 THEN PI - base ELSE base) : v \in {y}, u \in {x}})

\* Newton's iteration downward from y >= sqrt(v), until it stops decreasing
RECURSIVE SqrtIter(_, _)
SqrtIter(v, y) ==
  LET y2 == (y + Div(v, y)) \div 2
  IN IF y2 >= y THEN y ELSE SqrtIter(v, y2)

\* Math.sqrt for an argument of at most 1
Sqrt(x) == The({IF v <= 0 THEN 0 ELSE SqrtIter(v, ONE) : v \in {x}})

\* Math.asin
Asin(s) == The({Atan2(v, Sqrt(ONE - Mul(v, v))) : v \in {s}})

LN2 == 69314718

RECURSIVE LnRed(_, _)
LnRed(v, k) ==
  IF v >= 2 * ONE THEN LnRed(v \div 2, k + 1)
  ELSE IF v < ONE THEN LnRed(v * 2, k - 1)
  ELSE The({LET z2 == Mul(z, z)
                t7 == ONE \div 13 + Mul(z2, ONE \div 15)
                t6 == ONE \div 11 + Mul(z2, t7)
                t5 == ONE \div 9 + Mul(z2, t6)
                t4 == ONE \div 7 + Mul(z2, t5)
                t3 == ONE \div 5 + Mul(z2, t4)
                t2 == ONE \div 3 + Mul(z2, t3)
            IN k * LN2 + 2 * Mul(z, ONE + Mul(z2, t2)) :
            z \in {Div(v - ONE, v + ONE)}})

\* Math.log of a positive finite number
Ln(x) == The({LnRed(v, 0) : v \in {x}})

\* ------------------------------------------------------------------------
\* IEEE values outside the fixed-point range, met only in rhumbBearing:
\*   [k |-> "num",   v |-> n]   the number n / ONE
\*   [k |-> "big",   v |-> n]   TAN_HALF_PI / (n / ONE), finite and huge
\*   [k |-> "small", v |-> n]   (n / ONE) / TAN_HALF_PI, finite and tiny
\*   [k |-> "wide",  v |-> n]   the number 10 * n / ONE (a logarithm > 21)
\*   [k |-> "inf"], [k |-> "ninf"], [k |-> "nan"]
\* where TAN_HALF_PI = Math.tan(Math.PI / 2) = 1.633123935319537e16.
\* ------------------------------------------------------------------------
LN_TAN_HALF_PI == 373317289

Num(n) == [k |-> "num", v |-> n]
Ext(kind) == [k |-> kind, v |-> 0]

\* Math.tan for an argument in [0, PI/2]
Tan(x) ==
  The({IF Cos(u) = 0 THEN [k |-> "big", v |-> ONE] ELSE Num(Div(Sin(u), Cos(u))) :
        u \in {x}})

\* t2 / t1 for two results of Tan (both non-negative)
FDivOf(t2, t1) ==
  IF t1.k = "big"
  THEN IF t2.k = "big" THEN Num(ONE)
       ELSE IF t2.v = 0 THEN Num(0) ELSE [k |-> "small", v |-> t2.v]
  ELSE IF t1.v = 0
       THEN IF t2.k = "num" /\ t2.v = 0 THEN Ext("nan") ELSE Ext("inf")
       ELSE IF t2.k = "big" THEN [k |-> "big", v |-> t1.v]
            ELSE Num(Div(t2.v, t1.v))

FDiv(t2, t1) == The({FDivOf(u, v) : u \in {t2}, v \in {t1}})

\* Math.log of a result of FDiv
FLogOf(r) ==
  CASE r.k = "num" /\ r.v > 0 -> Num(Ln(r.v))
    [] r.k = "num" /\ r.v = 0 -> Ext("ninf")
    [] r.k = "num" /\ r.v < 0 -> Ext("nan")
    [] r.k = "big" -> [k |-> "wide", v |-> LN_TAN_HALF_PI - Ln(r.v) \div 10]
    [] r.k = "small" -> [k |-> "wide", v |-> Ln(r.v) \div 10 - LN_TAN_HALF_PI]
    [] OTHER -> r

FLog(r) == The({FLogOf(v) : v \in {r}})

\* Math.atan2(y, x) for a finite y and a result x of FLog
FAtan2Of(y, x) ==
  CASE x.k = "num" -> Atan2(y, x.v)
    [] x.k = "wide" -> Atan2(y \div 10, x.v)
    [] x.k = "inf" -> 0
    [] x.k = "ninf" -> IF y >= 0 THEN PI ELSE -PI
    [] OTHER -> NaN

FAtan2(y, x) == The({FAtan2Of(v, u) : v \in {y}, u \in {x}})

\* ------------------------------------------------------------------------
\* Geodesy functions
\* ------------------------------------------------------------------------
JERUSALEM == [lat |-> 31778000, lng |-> 35235400]
BROOKLYN == [lat |-> 40678200, lng |-> -73944200]
R == 6371000

toRad(d) == MulDiv(PI, d, 180 * DEG)
toDeg(r) == MulDiv(180 * DEG, r, PI)

\* initialBearingGC with the arguments of atan2 exchanged
initialBearingGC_swappedAtan2(p, q) ==
  LET phi1 == toRad(p.lat)
      phi2 == toRad(q.lat)
      dl == toRad(q.lng - p.lng)
      y == Mul(Sin(dl), Cos(phi2))
      x == Mul(Cos(phi1), Sin(phi2)) - Mul(Mul(Sin(phi1), Cos(phi2)), Cos(dl))
      theta == Atan2(x, y)
  IN JsMod(toDeg(theta) + 360 * DEG, 360 * DEG)

initialBearingGC(p, q) ==
  LET phi1 == toRad(p.lat)
      phi2 == toRad(q.lat)
      dl == toRad(q.lng - p.lng)
      y == Mul(Sin(dl), Cos(phi2))
      x == Mul(Cos(phi1), Sin(phi2)) - Mul(Mul(Sin(phi1), Cos(phi2)), Cos(dl))
      theta == Atan2(y, x)
  IN JsMod(toDeg(theta) + 360 * DEG, 360 * DEG)

\* rhumbWrap with the sign of the positive branch lost
rhumbWrap_signSlip(dl) ==
  The({IF Abs(v) > PI THEN IF v > 0 THEN 2 * PI - v ELSE 2 * PI + v ELSE v :
       v \in {dl}})

\* the longitude difference handed to atan2 (lines 36-38)
rhumbWrap(dl) ==
  The({IF Abs(v) > PI
       THEN IF v > 0 THEN -(2 * PI - v) ELSE 2 * PI + v
       ELSE v : v \in {dl}})

rhumbDeltaPsi(p, q) ==
  LET phi1 == toRad(p.lat)
      phi2 == toRad(q.lat)
  IN FLog(FDiv(Tan(phi2 \div 2 + PI \div 4), Tan(phi1 \div 2 + PI \div 4)))

rhumbBearing(p, q) ==
  LET dl == rhumbWrap(toRad(q.lng - p.lng))
      theta == FAtan2(dl, rhumbDeltaPsi(p, q))
  IN IF theta = NaN THEN NaN ELSE JsMod(toDeg(theta) + 360 * DEG, 360 * DEG)

\* destinationGC with the longitude offset subtracted instead of added
destinationGC_westward(p, brgDeg, meters) ==
  LET delta == MulDiv(ONE, meters, R)
      theta == toRad(brgDeg)
      phi1 == toRad(p.lat)
      lam1 == toRad(p.lng)
      sinphi2 == Mul(Sin(phi1), Cos(delta)) + Mul(Mul(Cos(phi1), Sin(delta)), Cos(theta))
      phi2 == Asin(sinphi2)
      y == Mul(Mul(Sin(theta), Sin(delta)), Cos(phi1))
      x == Cos(delta) - Mul(Sin(phi1), sinphi2)
      lam2 == lam1 - Atan2(y, x)
  IN [lat |-> toDeg(phi2),
      lng |-> JsMod(toDeg(lam2) + 540 * DEG, 360 * DEG) - 180 * DEG]

destinationGC(p, brgDeg, meters) ==
  LET delta == MulDiv(ONE, meters, R)
      theta == toRad(brgDeg)
      phi1 == toRad(p.lat)
      lam1 == toRad(p.lng)
      sinphi2 == Mul(Sin(phi1), Cos(delta)) + Mul(Mul(Cos(phi1), Sin(delta)), Cos(theta))
      phi2 == Asin(sinphi2)
      y == Mul(Mul(Sin(theta), Sin(delta)), Cos(phi1))
      x == Cos(delta) - Mul(Sin(phi1), sinphi2)
      lam2 == lam1 + Atan2(y, x)
  IN [lat |-> toDeg(phi2),
      lng |-> JsMod(toDeg(lam2) + 540 * DEG, 360 * DEG) - 180 * DEG]

\* makeBearingLine without the kilometre scaling
makeBearingLine_unscaled(start, brg, km) == <<start, destinationGC(start, brg, km)>>

\* first variant: the third argument is in kilometres
makeBearingLine(start, brg, km) ==
  <<start, destinationGC(start, brg, km * 1000)>>

\* second variant: the third argument is in metres
makeBearingLine2(start, brg, meters) ==
  <<start, destinationGC(start, brg, meters)>>

\* ------------------------------------------------------------------------
\* State
\* ------------------------------------------------------------------------
VARIABLES
  a, b, bearingDeg, distM,   \* arguments of a call of a geodesy function
  call, out, aux,            \* the function last applied and what it returned
  variant,                   \* 1: App with mode and 50 km line, 2: App with 5 km line
  geoSupported,              \* navigator.geolocation is present
  address, center, mode,     \* useState of App; center is <<>> (null) or <<point>>
  bearing, line,             \* useMemo of App; <<>> is null
  geo,                       \* the geodesy functions on the points a lookup can return
  lookups,                   \* the requests issued so far, in issue order
  alerts,                    \* number of alert() calls
  attempts,                  \* number of lookup handlers run
  last                       \* the handler that ran last

geoVars == <<a, b, bearingDeg, distM, call, out, aux>>
appVars == <<variant, geoSupported, address, center, mode, bearing, line,
             geo, lookups, alerts, attempts, last>>
vars == <<a, b, bearingDeg, distM, call, out, aux, variant, geoSupported,
          address, center, mode, bearing, line, geo, lookups, alerts, attempts, last>>

MaxLookups == 2

Point(la, lo) == [lat |-> la, lng |-> lo]
SYDNEY == Point(-33868800, 151209300)

\* what the geocoder or the device can answer
GeoResults == {BROOKLYN, SYDNEY}
\* input texts: empty, whitespace only, a query
Addresses == {<<>>, <<" ">>, <<"q">>}
Modes == {"gc", "rhumb"}

\* !query.trim()
IsBlank(query) == \A i \in DOMAIN query : query[i] = " "

\* ------------------------------------------------------------------------
\* App
\* ------------------------------------------------------------------------
\* The geodesy functions are pure, so their values on the points a lookup
\* can return are evaluated once, when App is mounted, and carried in geo:
\*   geo.gc[p]       = initialBearingGC(p, JERUSALEM)
\*   geo.rhumb[p]    = rhumbBearing(p, JERUSALEM)
\*   geo.line[p][g]  = makeBearingLine(p, g, 50)      (first variant)
\*   geo.line2[p][g] = makeBearingLine2(p, g, 5000)   (second variant)
GeoTable ==
  LET gc == [p \in GeoResults |-> initialBearingGC(p, JERUSALEM)]
      rh == [p \in GeoResults |-> rhumbBearing(p, JERUSALEM)]
  IN [gc |-> gc,
      rhumb |-> rh,
      line |-> [p \in GeoResults |->
                 [g \in {gc[p], rh[p]} |-> makeBearingLine(p, g, 50)]],
      line2 |-> [p \in GeoResults |->
                  [g \in {gc[p]} |-> makeBearingLine2(p, g, 5000)]]]

\* bearingMemo that ignores the mode
bearingMemo_gcOnly(c, m) == IF c = <<>> THEN <<>> ELSE <<geo.gc[c[1]]>>

bearingMemo(c, m) ==
  IF c = <<>> THEN <<>>
  ELSE IF m = "gc" THEN <<geo.gc[c[1]]>> ELSE <<geo.rhumb[c[1]]>>

bearingMemo2(c) ==
  IF c = <<>> THEN <<>> ELSE <<geo.gc[c[1]]>>

lineMemo(c, brg) ==
  IF c = <<>> \/ brg = <<>> THEN <<>> ELSE geo.line[c[1]][brg[1]]

lineMemo2(c, brg) ==
  IF c = <<>> \/ brg = <<>> THEN <<>> ELSE geo.line2[c[1]][brg[1]]

\* one render: the memoised values follow the new center and mode
Render(c, m) ==
  /\ bearing' = IF variant = 1 THEN bearingMemo(c, m) ELSE bearingMemo2(c)
  /\ line' = IF variant = 1 THEN lineMemo(c, bearing') ELSE lineMemo2(c, bearing')

\* centerAfterGeocode that clears the center when nothing matched
centerAfterGeocode_clearing(c, data) == IF data # <<>> THEN <<data[1]>> ELSE <<>>

\* center after geocode() has seen the response; data is <<>> or <<data[0]>>
centerAfterGeocode(c, data) == IF data # <<>> THEN <<data[1]>> ELSE c

AppInit ==
  /\ variant \in {1, 2}
  /\ geoSupported \in BOOLEAN
  /\ address = <<>>
  /\ center = <<>>
  /\ mode = "gc"
  /\ bearing = <<>>
  /\ line = <<>>
  /\ geo = GeoTable
  /\ lookups = <<>>
  /\ alerts = 0
  /\ attempts = 0
  /\ last = "init"

GeoIdle ==
  /\ a = BROOKLYN
  /\ b = JERUSALEM
  /\ bearingDeg = 0
  /\ distM = 0
  /\ call = "idle"
  /\ out = 0
  /\ aux = 0

Init == GeoIdle /\ AppInit

\* onChange of the input
SetAddress(s) ==
  /\ s # address
  /\ address' = s
  /\ last' = "setAddress"
  /\ UNCHANGED <<variant, geoSupported, geo, center, mode, bearing, line, lookups,
                 alerts, attempts>>
  /\ UNCHANGED geoVars

\* onChange of a mode radio button (first variant only)
SetMode(m) ==
  /\ variant = 1
  /\ m # mode
  /\ mode' = m
  /\ Render(center, m)
  /\ last' = "setMode"
  /\ UNCHANGED <<variant, geoSupported, geo, address, center, lookups, alerts, attempts>>
  /\ UNCHANGED geoVars

\* geocode(address) up to the await of fetch
Geocode ==
  /\ attempts < MaxLookups
  /\ attempts' = attempts + 1
  /\ IF IsBlank(address)
     THEN /\ last' = "geocodeEmpty"
          /\ UNCHANGED lookups
     ELSE /\ last' = "geocodeIssued"
          /\ lookups' = Append(lookups, [kind |-> "geocode", st |-> "pending", pt |-> <<>>])
  /\ UNCHANGED <<variant, geoSupported, geo, address, center, mode, bearing, line, alerts>>
  /\ UNCHANGED geoVars

\* geocode() after the response of request i arrived
GeocodeResponse(i, data) ==
  /\ i \in DOMAIN lookups
  /\ lookups[i].kind = "geocode"
  /\ lookups[i].st = "pending"
  /\ lookups' = [lookups EXCEPT ![i] =
                   [kind |-> "geocode", st |-> IF data # <<>> THEN "point" ELSE "none",
                    pt |-> data]]
  /\ center' = centerAfterGeocode(center, data)
  /\ Render(center', mode)
  /\ alerts' = IF data # <<>> THEN alerts ELSE alerts + 1
  /\ last' = IF data # <<>> THEN "geocodeFound" ELSE "geocodeNoMatch"
  /\ UNCHANGED <<variant, geoSupported, geo, address, mode, attempts>>
  /\ UNCHANGED geoVars

\* fetch() or res.json() of request i rejects: geocode() ends at the await
GeocodeReject(i) ==
  /\ i \in DOMAIN lookups
  /\ lookups[i].kind = "geocode"
  /\ lookups[i].st = "pending"
  /\ lookups' = [lookups EXCEPT ![i].st = "failed"]
  /\ last' = "geocodeFailed"
  /\ UNCHANGED <<variant, geoSupported, geo, address, center, mode, bearing, line,
                 alerts, attempts>>
  /\ UNCHANGED geoVars

\* useMyLocation() (first variant only)
UseMyLocation ==
  /\ variant = 1
  /\ attempts < MaxLookups
  /\ attempts' = attempts + 1
  /\ IF ~geoSupported
     THEN /\ alerts' = alerts + 1
          /\ last' = "locationUnsupported"
          /\ UNCHANGED lookups
     ELSE /\ last' = "locationIssued"
          /\ lookups' = Append(lookups, [kind |-> "location", st |-> "pending", pt |-> <<>>])
          /\ UNCHANGED alerts
  /\ UNCHANGED <<variant, geoSupported, geo, address, center, mode, bearing, line>>
  /\ UNCHANGED geoVars

\* success callback of getCurrentPosition for request i
LocationSuccess(i, pos) ==
  /\ i \in DOMAIN lookups
  /\ lookups[i].kind = "location"
  /\ lookups[i].st = "pending"
  /\ lookups' = [lookups EXCEPT ![i] = [kind |-> "location", st |-> "point", pt |-> <<pos>>]]
  /\ center' = <<pos>>
  /\ Render(center', mode)
  /\ last' = "locationFound"
  /\ UNCHANGED <<variant, geoSupported, geo, address, mode, alerts, attempts>>
  /\ UNCHANGED geoVars

\* error callback of getCurrentPosition for request i (permission, timeout)
LocationError(i) ==
  /\ i \in DOMAIN lookups
  /\ lookups[i].kind = "location"
  /\ lookups[i].st = "pending"
  /\ lookups' = [lookups EXCEPT ![i].st = "none"]
  /\ alerts' = alerts + 1
  /\ last' = "locationError"
  /\ UNCHANGED <<variant, geoSupported, geo, address, center, mode, bearing, line, attempts>>
  /\ UNCHANGED geoVars

Next ==
  \/ \E s \in Addresses : SetAddress(s)
  \/ \E m \in Modes : SetMode(m)
  \/ Geocode
  \/ \E i \in 1..MaxLookups, data \in {<<>>} \cup {<<p>> : p \in GeoResults} :
       GeocodeResponse(i, data)
  \/ \E i \in 1..MaxLookups : GeocodeReject(i)
  \/ UseMyLocation
  \/ \E i \in 1..MaxLookups, pos \in GeoResults : LocationSuccess(i, pos)
  \/ \E i \in 1..MaxLookups : LocationError(i)

Spec == Init /\ [][Next]_vars

\* ------------------------------------------------------------------------
\* The bearing functions applied to a pair of points
\* ------------------------------------------------------------------------
BearingLats == {-90 * DEG, -60 * DEG, 0, 90 * DEG}
BearingLngs == {-170 * DEG, 0, 170 * DEG, 180 * DEG}
BearingPoints ==
  {BROOKLYN, JERUSALEM} \cup {Point(la, lo) : la \in BearingLats, lo \in BearingLngs}

AppIdle ==
  /\ variant = 1
  /\ geoSupported = TRUE
  /\ address = <<>>
  /\ center = <<>>
  /\ mode = "gc"
  /\ bearing = <<>>
  /\ line = <<>>
  /\ geo = <<>>
  /\ lookups = <<>>
  /\ alerts = 0
  /\ attempts = 0
  /\ last = "init"

BearingInit ==
  /\ a \in BearingPoints
  /\ b \in BearingPoints
  /\ bearingDeg = 0
  /\ distM = 0
  /\ call = "idle"
  /\ out = 0
  /\ aux = 0
  /\ AppIdle

CallInitialBearingGC ==
  /\ call = "idle"
  /\ call' = "initialBearingGC"
  /\ out' = initialBearingGC(a, b)
  /\ UNCHANGED <<a, b, bearingDeg, distM, aux>>
  /\ UNCHANGED appVars

\* aux keeps the longitude difference before and after the wrap
CallRhumbBearing ==
  /\ call = "idle"
  /\ call' = "rhumbBearing"
  /\ out' = rhumbBearing(a, b)
  /\ aux' = [raw |-> toRad(b.lng - a.lng), dl |-> rhumbWrap(toRad(b.lng - a.lng))]
  /\ UNCHANGED <<a, b, bearingDeg, distM>>
  /\ UNCHANGED appVars

\* the same call with 360 degrees added to (k = 1) or subtracted from (k = -1)
\* the longitude of the origin or of the destination
CallRhumbBearingShifted(which, k) ==
  /\ call = "rhumbBearing"
  /\ call' = "rhumbShifted"
  /\ aux' = [which |-> which, k |-> k,
             res |-> IF which = "a"
                     THEN rhumbBearing(Point(a.lat, a.lng + k * 360 * DEG), b)
                     ELSE rhumbBearing(a, Point(b.lat, b.lng + k * 360 * DEG))]
  /\ UNCHANGED <<a, b, bearingDeg, distM, out>>
  /\ UNCHANGED appVars

Return ==
  /\ call # "idle"
  /\ call' = "idle"
  /\ out' = 0
  /\ aux' = 0
  /\ UNCHANGED <<a, b, bearingDeg, distM>>
  /\ UNCHANGED appVars

BearingNext ==
  \/ CallInitialBearingGC
  \/ CallRhumbBearing
  \/ \E which \in {"a", "b"}, k \in {-1, 1} : CallRhumbBearingShifted(which, k)
  \/ Return

SpecBearing == BearingInit /\ [][BearingNext]_vars

\* ------------------------------------------------------------------------
\* destinationGC and makeBearingLine applied to an origin, a bearing and a
\* distance
\* ------------------------------------------------------------------------
DestLats == {-89900000, 0, 10 * DEG, 60 * DEG, 89900000}
DestLngs == {0, 180 * DEG}
Origins == {BROOKLYN} \cup {Point(la, lo) : la \in DestLats, lo \in DestLngs}
Bearings == {0, 45 * DEG, 90 * DEG, 180 * DEG, 270 * DEG, 359 * DEG}
\* metres: none, the two line lengths, one degree of the equator, half the
\* circumference
Dists == {0, 5000, 50000, 111320, 20015087}
\* the third argument the two App variants pass to makeBearingLine
LineArgs == {50, 5000}

DestInit ==
  /\ a \in Origins
  /\ b = a
  /\ bearingDeg \in Bearings
  /\ distM \in Dists
  /\ call = "idle"
  /\ out = 0
  /\ aux = 0
  /\ AppIdle

CallDestinationGC ==
  /\ call = "idle"
  /\ call' = "destinationGC"
  /\ out' = destinationGC(a, bearingDeg, distM)
  /\ UNCHANGED <<a, b, bearingDeg, distM, aux>>
  /\ UNCHANGED appVars

CallMakeBearingLine(km) ==
  /\ call = "idle"
  /\ call' = "makeBearingLine"
  /\ out' = makeBearingLine(a, bearingDeg, km)
  /\ aux' = km
  /\ UNCHANGED <<a, b, bearingDeg, distM>>
  /\ UNCHANGED appVars

CallMakeBearingLine2(meters) ==
  /\ call = "idle"
  /\ call' = "makeBearingLine2"
  /\ out' = makeBearingLine2(a, bearingDeg, meters)
  /\ aux' = meters
  /\ UNCHANGED <<a, b, bearingDeg, distM>>
  /\ UNCHANGED appVars

\* destinationGC, then initialBearingGC from the result back to the origin
CallRoundTrip ==
  /\ call = "idle"
  /\ call' = "roundTrip"
  /\ \E dest \in {destinationGC(a, bearingDeg, distM)} :
       out' = [dest |-> dest, back |-> initialBearingGC(dest, a)]
  /\ UNCHANGED <<a, b, bearingDeg, distM, aux>>
  /\ UNCHANGED appVars

DestNext ==
  \/ CallDestinationGC
  \/ \E km \in LineArgs : CallMakeBearingLine(km)
  \/ \E meters \in LineArgs : CallMakeBearingLine2(meters)
  \/ CallRoundTrip
  \/ Return

SpecDest == DestInit /\ [][DestNext]_vars

\* ------------------------------------------------------------------------
\* Properties of the geodesy functions
\* ------------------------------------------------------------------------
ValidLng(p) == p.lng > -180 * DEG /\ p.lng <= 180 * DEG
ValidLat(p) == p.lat >= -90 * DEG /\ p.lat <= 90 * DEG

\* distance between two bearings on the circle, in [0, 180] degrees
AngDiff(x, y) ==
  LET e == (x - y) % (360 * DEG)
  IN IF e > 180 * DEG THEN 360 * DEG - e ELSE e

\* C1: for a valid origin, any bearing and any non-negative distance, the
\* longitude destinationGC returns lies in (-180, 180].
C1_LongitudeHalfOpen ==
  (call = "destinationGC" /\ ValidLat(a) /\ ValidLng(a) /\ distM >= 0)
    => (out.lng > -180 * DEG /\ out.lng <= 180 * DEG)

\* C2: for all valid points, poles and coincident points included, both
\* bearing functions return a number b, not NaN, with 0 <= b < 360.
C2_BearingDefined ==
  (call \in {"initialBearingGC", "rhumbBearing"}
     /\ ValidLat(a) /\ ValidLng(a) /\ ValidLat(b) /\ ValidLng(b))
    => (out # NaN /\ out >= 0 /\ out < 360 * DEG)

\* C3: rhumbBearing is unchanged when 360 degrees are added to or subtracted
\* from the longitude of either point.
C3_RhumbPeriodic ==
  (call = "rhumbShifted" /\ ValidLng(a) /\ ValidLng(b)) => aux.res = out

\* C4 as claimed: every makeBearingLine returns <<origin, destinationGC(origin,
\* bearing, third argument taken as metres, unscaled)>>.
C4_LineUnscaled ==
  call \in {"makeBearingLine", "makeBearingLine2"}
    => (Len(out) = 2 /\ out[1] = a /\ out[2] = destinationGC(a, bearingDeg, aux))

\* C4 amended: makeBearingLine returns exactly two points, the origin
\* unchanged and destinationGC(origin, bearing, L), where L is the third
\* argument times 1000 in the first variant (kilometres) and the third
\* argument itself in the second variant (metres).
C4_LineScaledPerVariant ==
  call \in {"makeBearingLine", "makeBearingLine2"}
    => /\ Len(out) = 2
       /\ out[1] = a
       /\ out[2] = destinationGC(a, bearingDeg,
                     IF call = "makeBearingLine" THEN aux * 1000 ELSE aux)

C4_Witness ==
  /\ call = "makeBearingLine"
  /\ aux = 50
  /\ out[2] = destinationGC(a, bearingDeg, 50000)
  /\ out[2] # destinationGC(a, bearingDeg, 50)

\* C5 as claimed: initialBearingGC(Brooklyn, Jerusalem) is between 68.9 and
\* 69.5 degrees.
C5_BrooklynClaimed ==
  (call = "initialBearingGC" /\ a = BROOKLYN /\ b = JERUSALEM)
    => (out >= 68900000 /\ out <= 69500000)

\* C5 amended: initialBearingGC(Brooklyn, Jerusalem) is between 53.8 and
\* 54.4 degrees.
C5_BrooklynBearing ==
  (call = "initialBearingGC" /\ a = BROOKLYN /\ b = JERUSALEM)
    => (out >= 53800000 /\ out <= 54400000)

C5_Witness == call = "initialBearingGC" /\ a = BROOKLYN /\ b = JERUSALEM

RoundTripError == AngDiff(out.back, (bearingDeg + 180 * DEG) % (360 * DEG))

\* C6 as claimed: for every valid origin, every bearing and the 5 km and
\* 50 km line lengths, the bearing from destinationGC(A, bearing, d) back
\* to A is within 0.1 degrees of (bearing + 180) mod 360.
C6_RoundTripClaimed ==
  (call = "roundTrip" /\ distM \in {5000, 50000}) => RoundTripError <= DEG \div 10

\* C6 amended: the same, for d = 5 km from an origin with |latitude| <= 60
\* degrees and for d = 50 km from an origin with |latitude| <= 10 degrees.
C6_RoundTripLowLatitude ==
  (call = "roundTrip"
     /\ \/ distM = 5000 /\ Abs(a.lat) <= 60 * DEG
        \/ distM = 50000 /\ Abs(a.lat) <= 10 * DEG)
    => RoundTripError <= DEG \div 10

C6_Witness ==
  /\ call = "roundTrip"
  /\ distM = 50000
  /\ a.lat = 10 * DEG
  /\ bearingDeg = 90 * DEG
  /\ out.dest # a
  /\ RoundTripError > 0

\* C7: the longitude difference handed to atan2 is d - 2 PI when d > PI,
\* d + 2 PI when d < -PI and d itself when |d| <= PI; for longitudes in
\* (-180, 180] its magnitude is at most PI.
C7_WrapRule ==
  (call = "rhumbBearing" /\ ValidLng(a) /\ ValidLng(b))
    => /\ aux.raw > PI => aux.dl = aux.raw - TWO_PI
       /\ aux.raw < -PI => aux.dl = aux.raw + TWO_PI
       /\ (aux.raw <= PI /\ aux.raw >= -PI) => aux.dl = aux.raw
       /\ aux.dl <= PI
       /\ aux.dl >= -PI
       /\ aux.dl - aux.raw \in {-TWO_PI, 0, TWO_PI}

C7_Witness == call = "rhumbBearing" /\ aux.raw > PI /\ aux.dl < 0

\* ------------------------------------------------------------------------
\* Properties of App
\* ------------------------------------------------------------------------
NoPointHandlers ==
  {"geocodeEmpty", "geocodeNoMatch", "geocodeFailed", "locationError",
   "locationUnsupported"}
AlertingHandlers == {"geocodeNoMatch", "locationError", "locationUnsupported"}

\* C8: a lookup that produces no point leaves center, mode, bearing and
\* line as they were; an empty query issues no request and raises nothing;
\* no match, a location error and a missing geolocation API raise one
\* alert; a center that was set never becomes null again.
C8_NoPointNoChange ==
  [][/\ last' \in NoPointHandlers
          => /\ center' = center
             /\ mode' = mode
             /\ bearing' = bearing
             /\ line' = line
             /\ address' = address
     /\ last' = "geocodeEmpty" => (lookups' = lookups /\ alerts' = alerts)
     /\ last' \in AlertingHandlers => alerts' = alerts + 1
     /\ center # <<>> => center' # <<>>]_vars

C8_Witness ==
  /\ center # <<>>
  /\ line # <<>>
  /\ last = "geocodeNoMatch"
  /\ alerts > 0

LineLength == IF variant = 1 THEN 50000 ELSE 5000

C9_Rendered ==
  /\ (bearing = <<>>) <=> (center = <<>>)
  /\ (line = <<>>) <=> (center = <<>>)
  /\ center # <<>> =>
       /\ bearing = <<IF variant = 1 /\ mode = "rhumb"
                      THEN rhumbBearing(center[1], JERUSALEM)
                      ELSE initialBearingGC(center[1], JERUSALEM)>>
       /\ line = <<center[1], destinationGC(center[1], bearing[1], LineLength)>>

\* C9: in every state of App bearing and line are null exactly when center
\* is null, and otherwise they are the bearing function of the current mode
\* applied to (center, JERUSALEM) and the line of fixed length from center
\* along that bearing; a mode change leaves center and address unchanged.
C9_NoStaleRender ==
  /\ []C9_Rendered
  /\ [][last' = "setMode" => (center' = center /\ address' = address)]_vars

C9_Witness ==
  /\ center = <<SYDNEY>>
  /\ mode = "rhumb"
  /\ last = "setMode"
  /\ bearing # <<initialBearingGC(SYDNEY, JERUSALEM)>>

Max(S) == CHOOSE x \in S : \A y \in S : y <= x

\* the point of the most recently issued lookup that produced one
LatestPoint ==
  LET withPoint == {i \in DOMAIN lookups : lookups[i].st = "point"}
  IN IF withPoint = {} THEN <<>> ELSE lookups[Max(withPoint)].pt

\* C10: once every lookup has completed, center is the point returned for
\* the most recently issued lookup that produced a point.
C10_LatestLookupWins ==
  (\A i \in DOMAIN lookups : lookups[i].st # "pending") => center = LatestPoint

====
